---- MODULE Spec2Model ----
(***************************************************************************)
(* Model of src/app.py (Family Image Generator, a Streamlit script).       *)
(*                                                                         *)
(* The program's state is st.session_state (five keys), kept here as the   *)
(* record `session`.  Every user action re-runs main() once; a run handles *)
(* at most one clicked button.  The environment supplies the calendar day  *)
(* (datetime.now().date()), the provider's HTTP response and the speech    *)
(* recogniser's answer.  `ui` records what the last run of the script did  *)
(* that is visible from outside: the button handled, the prompt handed to  *)
(* the generation path, the provider calls made, the messages rendered,    *)
(* the image displayed and the wait at which the run was stopped, if any.  *)
(*                                                                         *)
(* A run is not atomic.  The user can touch another widget at any moment   *)
(* of a run; Streamlit then stops the script at the next st.* call or      *)
(* st.session_state access it reaches, before that call renders anything   *)
(* or that access reads or writes (with an exception that derives from     *)
(* BaseException, which no handler of app.py catches), and starts the next *)
(* run.  The session writes made so far stay.  A handler is therefore      *)
(* described by the points it reaches, in the order of the code, and by    *)
(* the session as it stands between them; a run can end at any of them.    *)
(*                                                                         *)
(* No handler reads `ui`: what a click does depends on the session and the *)
(* day alone.  `clicks` counts the button runs since the page was last     *)
(* rendered by a run with no button clicked, and MaxClicks bounds it.      *)
(*                                                                         *)
(* Text is a sequence of characters, so that str.strip() and the truth     *)
(* value of a str are computed, not assumed.  A character is a string of   *)
(* length one when it is ASCII and its code point, "U+00E9", when it is    *)
(* not.  Python's None is "None".                                          *)
(* A gallery item's timestamp (datetime.now().isoformat(), only ever       *)
(* rendered as a caption) is the token "now".                              *)
(***************************************************************************)
EXTENDS Integers, Sequences, FiniteSets

VARIABLES session, today, ui, added, clicks

vars == <<session, today, ui, added, clicks>>

\* ------------------------------------------------------------- constants
DAILY_LIMIT == 50

GALLERY_CAP == 5

HTTP_OK == 200

DEEPSEEK_API_URL == "https://api.deepseek.ai/v1/generate"

\* the endpoints generate_image posts to, in the order it tries them
Candidates == <<DEEPSEEK_API_URL>>

\* ---------------------------------------------------------------- bounds
\* last calendar day the clock reaches (days are 0 .. MaxDay)
MaxDay == 1

\* number of direct add_to_gallery calls explored by SpecGallery
MaxAdds == 7

\* button runs between two runs of main with no button clicked
MaxClicks == 1

\* longest gallery explored: every run stopped between the insert and the
\* slice of add_to_gallery leaves the list one item longer
MaxGallery == 6

\* ---------------------------------------------------------------- inputs
\* text of the multi-line text area: empty, whitespace only, words with
\* surrounding whitespace
Prompts == { <<>>, <<" ", "\n">>, <<"\t", "a", " ">> }

\* what the recogniser returns when it returns a str
SpokenTexts == { <<>>, <<"\t", "a", " ">> }

\* the inputs that are empty once trimmed
BlankPrompts == { <<>>, <<" ", "\n">> }

URLs == { "u1" }

\* urls and prompts handed to add_to_gallery when it is exercised on its own
GalleryURLs == { "u1", "u2" }

GalleryPrompts == { <<"a">>, <<"b">> }

\* what requests.post can do: answer with a status and a body, or raise.
\* json says what reading the body does: "ok", the body is an object whose
\* data.url is `url` (None when absent); "request_exception", response.json()
\* raises requests' JSONDecodeError, a RequestException; "error", reading
\* raises anything else (a ValueError of older requests, an AttributeError
\* of the .get chain on a body whose data is no object).
Responses ==
    { [kind |-> "response", status |-> 200, json |-> "ok", url |-> u] : u \in URLs \cup {"None"} }
    \cup { [kind |-> "response", status |-> 200, json |-> "request_exception", url |-> "None"],
           [kind |-> "response", status |-> 200, json |-> "error", url |-> "None"],
           [kind |-> "response", status |-> 500, json |-> "ok", url |-> "None"],
           [kind |-> "connection_error"],
           [kind |-> "timeout"] }

\* what requests.get of display_image_with_download can do
Downloads == { "ok", "http_error", "exception" }

\* the point at which a run is stopped: an st.* call, by the message it
\* renders (or by the spinner it opens or closes), or an access to
\* st.session_state: date_read (35, 36: the read of the window date, the
\* write of the count), date_write (37), count_read (42), count_incr (68:
\* the read and the write of `+= 1`), gallery_insert (112: the read before
\* insert), gallery_cut (113, 114: the reads of the length test and of the
\* slice, the write), auth_write (142, 204), email_write (143, 205)
Stops ==
    { "none",
      "warning_empty", "limit_error", "spinner_enter", "api_error", "spinner_exit",
      "network_error", "success_text", "success_voice", "image", "download_button",
      "download_error", "transcribing_enter", "not_understood", "recognition_error",
      "transcribing_exit", "transcribed", "login_success",
      "date_read", "date_write", "count_read", "count_incr", "gallery_insert",
      "gallery_cut", "auth_write", "email_write" }

\* the answer of a provider that is never asked
Idle == [kind |-> "timeout"]

WithImage ==
    { r \in Responses : r.kind = "response" /\ r.status = 200 /\ r.json = "ok" /\ r.url # "None" }

\* the answers with status 200, whatever the body
With200 == { r \in Responses : r.kind = "response" /\ r.status = 200 }

\* the environment of one run: the provider's answer, the outcome of the
\* image downloads and the call the run is stopped at.  An answer the run
\* is stopped before reading is left at its first value.

\* no widget touched during the run
QuietEnvs == { [resp |-> r, dl |-> d, stop |-> "none"] : r \in Responses, d \in Downloads }

\* stopped before requests.post
TextEarlyStops ==
    { [resp |-> Idle, dl |-> "ok", stop |-> n] :
        n \in {"date_read", "date_write", "count_read", "limit_error", "spinner_enter"} }

VoiceEarlyStops ==
    { [resp |-> Idle, dl |-> "ok", stop |-> n] :
        n \in {"transcribing_enter", "transcribing_exit", "transcribed", "date_read",
               "date_write", "count_read", "limit_error", "spinner_enter"} }

\* stopped after requests.post, inside generate_image: at the increment of
\* the count, at the spinner's exit or at the st.error the answer leads to
PostStops ==
    { [resp |-> r, dl |-> "ok", stop |-> "spinner_exit"] : r \in Responses }
    \cup { [resp |-> r, dl |-> "ok", stop |-> "count_incr"] : r \in With200 }
    \cup { [resp |-> r, dl |-> "ok", stop |-> "api_error"] :
             r \in { a \in Responses : a.kind = "response" /\ a.status # 200 } }
    \cup { [resp |-> r, dl |-> "ok", stop |-> "network_error"] :
             r \in { a \in Responses : a.kind # "response" \/ a.json = "request_exception" } }

\* stopped after generate_image returned a url
ShowStops(okmsg) ==
    { [resp |-> r, dl |-> "ok", stop |-> n] :
        r \in WithImage,
        n \in {"gallery_insert", "gallery_cut", okmsg, "image", "download_button"} }
    \cup { [resp |-> r, dl |-> "exception", stop |-> "download_error"] : r \in WithImage }

TextEnvs == QuietEnvs \cup TextEarlyStops \cup PostStops \cup ShowStops("success_text")

Envs == QuietEnvs \cup VoiceEarlyStops \cup PostStops \cup ShowStops("success_voice")

\* a text run with an empty prompt: the provider is not asked
IdleEnvs ==
    { [resp |-> Idle, dl |-> d, stop |-> "none"] : d \in Downloads }
    \cup { [resp |-> Idle, dl |-> "ok", stop |-> "warning_empty"] }

\* a voice run that gets no text from transcribe_audio
HeardNothingEnvs ==
    { [resp |-> Idle, dl |-> d, stop |-> "none"] : d \in Downloads }
    \cup { [resp |-> Idle, dl |-> "ok", stop |-> n] :
             n \in {"transcribing_enter", "not_understood", "recognition_error",
                    "transcribing_exit"} }

\* what transcribe_audio's recogniser can do with the texts T: return one,
\* raise UnknownValueError or RequestError, or raise anything else (the
\* ValueError of sr.AudioFile on a file that is no PCM WAV)
Recognitions(T) ==
    { [kind |-> "text", text |-> p] : p \in T }
    \cup { [kind |-> "unknown_value"], [kind |-> "request_error"], [kind |-> "error"] }

\* ------------------------------------------------------- python helpers
\* the characters str.strip() removes, those str.isspace() holds of: space,
\* \t, \n, \r, \f, U+000B and U+001C .. U+001F written raw, the others by
\* code point
Whitespace ==
    { " ", "\t", "\n", "\r", "\f", "", "", "", "", "",
      "U+0085", "U+00A0", "U+1680", "U+2000", "U+2001", "U+2002", "U+2003", "U+2004",
      "U+2005", "U+2006", "U+2007", "U+2008", "U+2009", "U+200A", "U+2028", "U+2029",
      "U+202F", "U+205F", "U+3000" }

IsSpace(c) == c \in Whitespace

RECURSIVE lstrip(_)
lstrip(s) == IF Len(s) > 0 /\ IsSpace(Head(s)) THEN lstrip(Tail(s)) ELSE s

RECURSIVE rstrip(_)
rstrip(s) ==
    IF Len(s) > 0 /\ IsSpace(s[Len(s)]) THEN rstrip(SubSeq(s, 1, Len(s) - 1)) ELSE s

\* str.strip()
strip(s) == rstrip(lstrip(s))

\* truth value of a str
StrTruthy(s) == Len(s) > 0

\* truth value of the value generate_image returns (a url str or None)
UrlTruthy(u) == u # "None" /\ u # ""

\* ------------------------------------------------------------- functions
init_session_state(day) ==
    [ authenticated     |-> FALSE,
      user_email        |-> "None",
      daily_requests    |-> 0,
      last_request_date |-> day,
      image_gallery     |-> <<>> ]

\* the write of line 36
zero_count(s) == [s EXCEPT !.daily_requests = 0]

reset_daily_counter(s, day) ==
    IF s.last_request_date # day
    THEN [zero_count(s) EXCEPT !.last_request_date = day]
    ELSE s

\* mutant: the limit itself still passes the gate
within_limit_inclusive(s) == s.daily_requests <= DAILY_LIMIT

\* the comparison of check_request_limit, on the state reset_daily_counter left
within_limit(s) == s.daily_requests < DAILY_LIMIT

\* mutant: the comparison reads the count from before the day reset
check_request_limit_stale(s, day) ==
    [ session |-> reset_daily_counter(s, day), ok |-> within_limit(s) ]

\* check_request_limit: the session after the call and the value returned
check_request_limit(s, day) ==
    LET s1 == reset_daily_counter(s, day)
    IN  [ session |-> s1, ok |-> within_limit(s1) ]

\* the session after a 200 answer
count_request(s) == [s EXCEPT !.daily_requests = @ + 1]

\* the order in which a handler reaches its stop points: the "Transcribing"
\* spinner (259) around transcribe_audio and its st.error (97, 100), the
\* transcription (266) or the warning (236), then generate_image: the day
\* reset (35-37) and the comparison (42), the limit error (47) or the spinner
\* (61) around the post, with the increment (68) or the API error (72)
\* inside it and the network error (76) after it, then add_to_gallery (112,
\* 113-114), the success message (233, 272) and display_image_with_download
\* (118, then 124 or 132)
Order ==
    [ transcribing_enter |-> 1, not_understood |-> 2, recognition_error |-> 2,
      transcribing_exit |-> 3, transcribed |-> 4, warning_empty |-> 4,
      date_read |-> 5, date_write |-> 6, count_read |-> 7,
      limit_error |-> 8, spinner_enter |-> 9, count_incr |-> 10, api_error |-> 11,
      spinner_exit |-> 12, network_error |-> 13, gallery_insert |-> 14,
      gallery_cut |-> 15, success_text |-> 16, success_voice |-> 16, image |-> 17,
      download_button |-> 18, download_error |-> 18 ]

\* requests.post and the handling of its answer, from the post to the end of
\* generate_image: the session it leaves, the value returned, the stop
\* points reached, what is rendered, and whether an exception leaves the
\* function
provider_call(s, resp) ==
    IF resp.kind = "response"
    THEN IF resp.status = HTTP_OK
         THEN IF resp.json = "ok"
              THEN [ session |-> count_request(s), ret |-> resp.url, raised |-> FALSE,
                     reached |-> {"count_incr", "spinner_exit"}, shown |-> {} ]
              \* the count is already incremented when reading the body raises;
              \* only a RequestException is caught
              ELSE IF resp.json = "request_exception"
                   THEN [ session |-> count_request(s), ret |-> "None", raised |-> FALSE,
                          reached |-> {"count_incr", "spinner_exit", "network_error"},
                          shown |-> {"network_error"} ]
                   ELSE [ session |-> count_request(s), ret |-> "None", raised |-> TRUE,
                          reached |-> {"count_incr", "spinner_exit"}, shown |-> {} ]
         ELSE [ session |-> s, ret |-> "None", raised |-> FALSE,
                reached |-> {"api_error", "spinner_exit"}, shown |-> {"api_error"} ]
    ELSE [ session |-> s, ret |-> "None", raised |-> FALSE,
           reached |-> {"spinner_exit", "network_error"}, shown |-> {"network_error"} ]

\* the accesses of check_request_limit: the window date is read (35), on
\* another day the count and the date are written (36, 37), the count is
\* read (42)
gate_reached(s, day) ==
    {"date_read", "count_read"}
    \cup (IF s.last_request_date # day THEN {"date_write"} ELSE {})

\* mutant: the denial is reported but the function does not return
generate_image_no_return(s, day, resp) ==
    LET gate == check_request_limit(s, day)
        r == provider_call(gate.session, resp)
    IN  [ gated |-> gate.session, session |-> r.session, ret |-> r.ret,
          calls |-> <<[url |-> DEEPSEEK_API_URL, answer |-> resp]>>,
          raised |-> r.raised,
          reached |-> gate_reached(s, day)
                      \cup (IF gate.ok THEN {} ELSE {"limit_error"})
                      \cup {"spinner_enter"} \cup r.reached,
          shown |-> (IF gate.ok THEN {} ELSE {"limit_error"}) \cup r.shown ]

\* generate_image.  gated: the session check_request_limit leaves, which
\* stands until the post is answered; calls: the posts made once the spinner
\* is open.
generate_image(s, day, resp) ==
    LET gate == check_request_limit(s, day)
    IN  IF ~gate.ok
        THEN [ gated |-> gate.session, session |-> gate.session, ret |-> "None",
               calls |-> <<>>, raised |-> FALSE,
               reached |-> gate_reached(s, day) \cup {"limit_error"},
               shown |-> {"limit_error"} ]
        ELSE LET r == provider_call(gate.session, resp)
             IN  [ gated |-> gate.session, session |-> r.session, ret |-> r.ret,
                   calls |-> <<[url |-> DEEPSEEK_API_URL, answer |-> resp]>>,
                   raised |-> r.raised,
                   reached |-> gate_reached(s, day) \cup {"spinner_enter"} \cup r.reached,
                   shown |-> r.shown ]

gallery_item(image_url, prompt, day) ==
    [ url |-> image_url, prompt |-> prompt, timestamp |-> "now" ]

truncate(g) == IF Len(g) > GALLERY_CAP THEN SubSeq(g, 1, GALLERY_CAP) ELSE g

\* the insert of line 112
insert_item(s, image_url, prompt, day) ==
    [s EXCEPT !.image_gallery = <<gallery_item(image_url, prompt, day)>> \o @]

add_to_gallery(s, image_url, prompt, day) ==
    [insert_item(s, image_url, prompt, day) EXCEPT !.image_gallery = truncate(@)]

\* display_image_with_download: st.image, then requests.get and the download
\* button (status 200), nothing (another status) or the error (an exception)
display_image_with_download(dl) ==
    IF dl = "ok" THEN [ reached |-> {"image", "download_button"}, shown |-> {} ]
    ELSE IF dl = "exception"
         THEN [ reached |-> {"image", "download_error"}, shown |-> {"download_error"} ]
         ELSE [ reached |-> {"image"}, shown |-> {} ]

\* tab 3: display_image_with_download for every item of the gallery
gallery_tab(s, dl) ==
    IF Len(s.image_gallery) > 0 /\ dl = "exception" THEN {"download_error"} ELSE {}

\* the part shared by both tabs: generate, then record and display on a url.
\* entry: the session the handler starts from; posted: the session
\* generate_image leaves; inserted: the session between the insert and the
\* slice of add_to_gallery; image: the url st.image is called with.
generate_and_show(s, day, prompt, resp, dl, okmsg) ==
    LET g == generate_image(s, day, resp)
    IN  IF ~g.raised /\ UrlTruthy(g.ret)
        THEN LET d == display_image_with_download(dl)
             IN  [ entry |-> s, gated |-> g.gated, posted |-> g.session,
                   inserted |-> insert_item(g.session, g.ret, prompt, day),
                   session |-> add_to_gallery(g.session, g.ret, prompt, day),
                   calls |-> g.calls, raised |-> FALSE, image |-> g.ret,
                   reached |-> g.reached \cup {"gallery_insert", "gallery_cut", okmsg}
                               \cup d.reached,
                   shown |-> g.shown \cup {okmsg} \cup d.shown ]
        ELSE [ entry |-> s, gated |-> g.gated, posted |-> g.session, inserted |-> g.session,
               session |-> g.session, calls |-> g.calls, raised |-> g.raised,
               image |-> "None", reached |-> g.reached, shown |-> g.shown ]

\* tab 1, the "Generate Image" button
text_tab(s, day, prompt, resp, dl) ==
    IF StrTruthy(strip(prompt))
    THEN generate_and_show(s, day, prompt, resp, dl, "success_text")
    ELSE [ entry |-> s, gated |-> s, posted |-> s, inserted |-> s, session |-> s,
           calls |-> <<>>, raised |-> FALSE, image |-> "None",
           reached |-> {"warning_empty"}, shown |-> {"warning_empty"} ]

\* transcribe_audio: the text returned (or None) and the message rendered;
\* raised: an exception other than the two it catches leaves the function
transcribe_audio(rec) ==
    IF rec.kind = "text"
    THEN [ none |-> FALSE, text |-> rec.text, shown |-> {}, raised |-> FALSE ]
    ELSE IF rec.kind = "unknown_value"
         THEN [ none |-> TRUE, text |-> <<>>, shown |-> {"not_understood"}, raised |-> FALSE ]
         ELSE IF rec.kind = "request_error"
              THEN [ none |-> TRUE, text |-> <<>>, shown |-> {"recognition_error"},
                     raised |-> FALSE ]
              ELSE [ none |-> TRUE, text |-> <<>>, shown |-> {}, raised |-> TRUE ]

\* tab 2, the "Transcribe & Generate" button: transcribe_audio inside its
\* spinner, then the generation on a text that is not None and not empty.
\* An exception out of transcribe_audio passes the spinner's exit and the
\* finally of 275-278 and leaves the handler.
voice_tab(s, day, rec, resp, dl) ==
    LET t == transcribe_audio(rec)
        heard == {"transcribing_enter", "transcribing_exit"} \cup t.shown
    IN  IF ~t.raised /\ ~t.none /\ StrTruthy(t.text)
        THEN LET r == generate_and_show(s, day, t.text, resp, dl, "success_voice")
             IN  [ r EXCEPT !.reached = @ \cup heard \cup {"transcribed"},
                            !.shown = @ \cup {"transcribed"} ]
        ELSE [ entry |-> s, gated |-> s, posted |-> s, inserted |-> s, session |-> s,
               calls |-> <<>>, raised |-> t.raised, image |-> "None",
               reached |-> heard, shown |-> t.shown ]

\* the session as it stands when the point numbered n is reached
session_at(h, n) ==
    IF n < Order.date_write THEN h.entry
    ELSE IF n = Order.date_write THEN zero_count(h.entry)
    ELSE IF n <= Order.count_incr THEN h.gated
    ELSE IF n <= Order.gallery_insert THEN h.posted
    ELSE IF n = Order.gallery_cut THEN h.inserted
    ELSE h.session

\* one run of main with a generation button clicked: the handler `h` of the
\* button's tab, then the gallery tab.  An exception that leaves the script
\* ends the run and is rendered by Streamlit.  A run stopped at a point has
\* rendered what the earlier calls render, has posted when the spinner was
\* opened, and has displayed the image when st.image was passed.
\* possible: the run reaches the point it is to be stopped at.
main(h, e) ==
    IF e.stop = "none"
    THEN [ possible |-> TRUE, session |-> h.session, calls |-> h.calls,
           image |-> h.image, stop |-> "none",
           shown |-> h.shown \cup (IF h.raised THEN {"exception"}
                                  ELSE gallery_tab(h.session, e.dl)) ]
    ELSE [ possible |-> e.stop \in h.reached,
           session |-> session_at(h, Order[e.stop]),
           calls |-> IF Order[e.stop] > Order.spinner_enter THEN h.calls ELSE <<>>,
           image |-> IF Order[e.stop] > Order.image THEN h.image ELSE "None",
           stop |-> e.stop,
           shown |-> { m \in h.shown : Order[m] < Order[e.stop] } ]

\* the login button: authenticated is written (142), then user_email (143)
google_oauth_login(s, stop) ==
    IF stop = "auth_write" THEN s
    ELSE IF stop = "email_write" THEN [s EXCEPT !.authenticated = TRUE]
    ELSE [s EXCEPT !.authenticated = TRUE, !.user_email = "family@example.com"]

\* the logout button: authenticated is written (204), then user_email (205)
logout(s, stop) ==
    IF stop = "auth_write" THEN s
    ELSE IF stop = "email_write" THEN [s EXCEPT !.authenticated = FALSE]
    ELSE [s EXCEPT !.authenticated = FALSE, !.user_email = "None"]

\* ------------------------------------------------------------------ init
Init ==
    /\ today = 0
    /\ session = init_session_state(0)
    /\ ui = [ op |-> "start", prompt |-> <<>>, calls |-> <<>>, shown |-> {},
              image |-> "None", stop |-> "none" ]
    /\ added = <<>>
    /\ clicks = 0

\* --------------------------------------------------------------- actions
TextSubmit(p, e) ==
    /\ clicks < MaxClicks
    /\ \E r \in {main(text_tab(session, today, p, e.resp, e.dl), e)} :
        /\ r.possible
        /\ Len(r.session.image_gallery) <= MaxGallery
        /\ session' = r.session
        /\ ui' = [ op |-> "text", prompt |-> p, calls |-> r.calls, shown |-> r.shown,
                   image |-> r.image, stop |-> r.stop ]
    /\ clicks' = clicks + 1
    /\ UNCHANGED <<today, added>>

VoiceSubmit(rec, e) ==
    /\ clicks < MaxClicks
    /\ \E r \in {main(voice_tab(session, today, rec, e.resp, e.dl), e)} :
        /\ r.possible
        /\ Len(r.session.image_gallery) <= MaxGallery
        /\ session' = r.session
        /\ ui' = [ op |-> "voice", prompt |-> transcribe_audio(rec).text, calls |-> r.calls,
                   shown |-> r.shown, image |-> r.image, stop |-> r.stop ]
    /\ clicks' = clicks + 1
    /\ UNCHANGED <<today, added>>

\* the login button: the two session writes, then st.success, then st.rerun
LoginClick(stop) ==
    /\ clicks < MaxClicks
    /\ ~session.authenticated
    /\ session' = google_oauth_login(session, stop)
    /\ ui' = [ op |-> "login", prompt |-> <<>>, calls |-> <<>>,
               shown |-> IF stop = "none" THEN {"login_success"} ELSE {},
               image |-> "None", stop |-> stop ]
    /\ clicks' = clicks + 1
    /\ UNCHANGED <<today, added>>

Login == \E stop \in {"none", "auth_write", "email_write", "login_success"} : LoginClick(stop)

\* the logout button: the two session writes, then st.rerun
LogoutClick(stop) ==
    /\ clicks < MaxClicks
    /\ session.authenticated
    /\ session' = logout(session, stop)
    /\ ui' = [ op |-> "logout", prompt |-> <<>>, calls |-> <<>>, shown |-> {},
               image |-> "None", stop |-> stop ]
    /\ clicks' = clicks + 1
    /\ UNCHANGED <<today, added>>

Logout == \E stop \in {"none", "auth_write", "email_write"} : LogoutClick(stop)

\* a run of main with no button clicked (another widget was touched, a file
\* was uploaded, st.rerun was called): the session is read, the page is
\* rendered again, the gallery tab included
Rerun(dl) ==
    /\ ui' = [ op |-> "rerun", prompt |-> <<>>, calls |-> <<>>,
               shown |-> gallery_tab(session, dl), image |-> "None", stop |-> "none" ]
    /\ clicks' = 0
    /\ UNCHANGED <<session, today, added>>

Refresh == \E dl \in Downloads : Rerun(dl)

\* midnight passes
NewDay ==
    /\ today < MaxDay
    /\ today' = today + 1
    /\ UNCHANGED <<session, ui, added, clicks>>

\* add_to_gallery called on its own; stopped at the length test of line 113
\* the item is inserted and the list is not cut (stopped at line 112 nothing
\* has changed)
GalleryCall(u, p, stop) ==
    /\ Len(added) < MaxAdds
    /\ session' = IF stop = "gallery_cut" THEN insert_item(session, u, p, today)
                  ELSE add_to_gallery(session, u, p, today)
    /\ Len(session'.image_gallery) <= MaxGallery
    /\ added' = Append(added, gallery_item(u, p, today))
    /\ UNCHANGED <<today, ui, clicks>>

\* the answers of provider and recogniser are drawn for the runs that wait
\* for them
Text(P) ==
    \E p \in P :
        \E e \in (IF StrTruthy(strip(p)) THEN TextEnvs ELSE IdleEnvs) : TextSubmit(p, e)

Voice(T) ==
    \E rec \in Recognitions(T) :
        \E e \in (IF rec.kind = "text" /\ StrTruthy(rec.text) THEN Envs ELSE HeardNothingEnvs) :
            VoiceSubmit(rec, e)

Gallery ==
    \E u \in GalleryURLs, p \in GalleryPrompts, stop \in {"none", "gallery_cut"} :
        GalleryCall(u, p, stop)

\* a session in which the recogniser returns words, nothing, or fails
Next == Text(Prompts) \/ Voice(SpokenTexts) \/ Login \/ Logout \/ Refresh \/ NewDay

Spec == Init /\ [][Next]_vars

\* a session in which every input is empty once trimmed
NextBlank ==
    Text(BlankPrompts) \/ Voice(BlankPrompts) \/ Login \/ Logout \/ Refresh \/ NewDay

SpecBlank == Init /\ [][NextBlank]_vars

\* add_to_gallery alone
NextGallery == Gallery \/ NewDay

SpecGallery == Init /\ [][NextGallery]_vars

\* ------------------------------------------------------- vocabulary
Min(a, b) == IF a < b THEN a ELSE b

RECURSIVE Reverse(_)
Reverse(q) == IF q = <<>> THEN <<>> ELSE Append(Reverse(Tail(q)), Head(q))

\* the first n elements
Take(q, n) == SubSeq(q, 1, n)

\* the last run handled one of the two generation buttons
IsSubmit(u) == u.op \in {"text", "voice"}

\* this step is a run of a generation button (Login and Logout set another
\* op, NewDay moves the clock)
Submitted == IsSubmit(ui') /\ today' = today

\* the prompt is non-empty once trimmed
HasContent(p) == StrTruthy(strip(p))

\* the calls of the voice tab that come before generate_image
BeforeGeneration ==
    { "transcribing_enter", "not_understood", "recognition_error", "transcribing_exit",
      "transcribed" }

\* the run handed a prompt that is non-empty once trimmed to generate_image
Generating(u) == HasContent(u.prompt) /\ u.stop \notin BeforeGeneration

\* the run got past reset_daily_counter (35-37)
PastReset(u) == Generating(u) /\ u.stop \notin {"date_read", "date_write"}

Answered200(a) == a.kind = "response" /\ a.status = HTTP_OK

Failed(a) == ~Answered200(a)

\* the answer carries an image: status 200, a readable body, a url in it
CarriesImage(a) == Answered200(a) /\ a.json = "ok" /\ UrlTruthy(a.url)

\* the count the limit comparison sees: after the day reset
CountAfterReset ==
    IF session.last_request_date # today THEN 0 ELSE session.daily_requests

\* the messages that tell why no image was generated ("Download error" is
\* rendered under an image that was generated and displayed)
FailureReasons ==
    { "warning_empty", "limit_error", "api_error", "network_error", "exception",
      "not_understood", "recognition_error" }

\* ---------------------------------------------------------------- claims

\* C1: in every reachable state the daily request count is between 0 and
\* DAILY_LIMIT.
C1_CountWithinLimit == session.daily_requests \in 0 .. DAILY_LIMIT

\* C1 witness: a counted provider call has just brought the count to the limit.
C1_Witness ==
    /\ IsSubmit(ui)
    /\ Len(ui.calls) = 1
    /\ Answered200(ui.calls[1].answer)
    /\ session.daily_requests = DAILY_LIMIT

\* C2: every submission with a non-empty prompt that passes the quota gate and
\* runs to its end raises the count (as the day reset leaves it) by exactly 1,
\* whatever the provider call ends in: success, a non-200 status, a network
\* error or a timeout.
C2_CountedOncePerAction ==
    [][ (Submitted /\ ui'.stop = "none" /\ HasContent(ui'.prompt)
            /\ CountAfterReset < DAILY_LIMIT)
            => session'.daily_requests = CountAfterReset + 1 ]_vars

\* C3: on both tabs a prompt that is empty once trimmed is rejected: no
\* provider call, the count unchanged, the gallery unchanged.
C3_BlankRejected ==
    [][ (Submitted /\ ~HasContent(ui'.prompt)) =>
          /\ ui'.calls = <<>>
          /\ session'.daily_requests = session.daily_requests
          /\ session'.image_gallery = session.image_gallery ]_vars

\* C4: with the count at the limit and the window date today, a submission
\* makes no provider call and leaves count and gallery alone, a non-empty
\* prompt is answered with the limit error when the run is not stopped, and
\* whatever happens next on that day (login and logout included) leaves the
\* session at the limit.
C4_DeniedAtLimit ==
    [][ ( /\ session.daily_requests = DAILY_LIMIT
          /\ session.last_request_date = today
          /\ today' = today ) =>
          /\ session'.daily_requests = DAILY_LIMIT
          /\ session'.last_request_date = today
          /\ session'.image_gallery = session.image_gallery
          /\ IsSubmit(ui') =>
                /\ ui'.calls = <<>>
                /\ ui'.image = "None"
                /\ ui'.stop \notin {"spinner_enter", "spinner_exit"}
                /\ (HasContent(ui'.prompt) /\ ui'.stop = "none") =>
                       "limit_error" \in ui'.shown ]_vars

\* C4 witness: a logged-in session at the limit has just been denied.
C4_Witness ==
    /\ session.daily_requests = DAILY_LIMIT
    /\ session.last_request_date = today
    /\ session.authenticated
    /\ IsSubmit(ui)
    /\ "limit_error" \in ui.shown
    /\ ui.calls = <<>>

\* C5: when a generation is started with a stored window date that is not
\* today and the run gets past the day reset, the date has become today and
\* the count has restarted from 0 before the limit comparison: the submission
\* is not denied for quota (the limit error is neither rendered nor reached),
\* the provider call is made unless the run is stopped before it, and the
\* count ends at 1 (a call answered 200 and counted) or 0.
C5_NewDayFreshAllowance ==
    [][ (Submitted /\ PastReset(ui') /\ session.last_request_date # today) =>
          /\ session'.last_request_date = today
          /\ "limit_error" \notin ui'.shown
          /\ ui'.stop # "limit_error"
          /\ Len(ui'.calls) = (IF ui'.stop \in {"count_read", "spinner_enter"} THEN 0 ELSE 1)
          /\ session'.daily_requests =
                 (IF /\ Len(ui'.calls) = 1
                     /\ Answered200(ui'.calls[1].answer)
                     /\ ui'.stop # "count_incr"
                  THEN 1 ELSE 0) ]_vars

\* C5 witness: the first counted generation of a later day, with a gallery
\* that still holds the earlier days' images.
C5_Witness ==
    /\ today > 0
    /\ session.last_request_date = today
    /\ IsSubmit(ui)
    /\ Len(ui.calls) = 1
    /\ session.daily_requests = 1
    /\ Len(session.image_gallery) = GALLERY_CAP

\* C6: after n add_to_gallery calls the gallery holds at most GALLERY_CAP
\* items, and exactly the min(n, GALLERY_CAP) items added last, newest first.
C6_GalleryNewestFirst ==
    /\ Len(session.image_gallery) <= GALLERY_CAP
    /\ session.image_gallery = Take(Reverse(added), Min(Len(added), GALLERY_CAP))

\* C7: every submission with a non-empty prompt ends with exactly one of: an
\* image displayed, or a rejection or failure reason rendered.
C7_ImageOrReason ==
    (IsSubmit(ui) /\ Generating(ui)) =>
        ((ui.image # "None") # (ui.shown \cap FailureReasons # {}))

\* C8: a submission changes the gallery exactly when the provider call was
\* made and its answer carried an image: then the item with the submitted
\* prompt and the returned url is put at the head (and the list cut to the
\* cap) and that url is displayed; in every other case (empty prompt, quota
\* denial, non-200 status, network error, timeout, no url in the body) the
\* gallery is what it was and nothing is displayed.
C8_GalleryIffSuccess ==
    [][ Submitted =>
          IF Len(ui'.calls) = 1 /\ CarriesImage(ui'.calls[1].answer)
          THEN /\ ui'.image = ui'.calls[1].answer.url
               /\ session'.image_gallery =
                      Take(<<[ url |-> ui'.image, prompt |-> ui'.prompt,
                               timestamp |-> "now" ]>> \o session.image_gallery,
                           Min(Len(session.image_gallery) + 1, GALLERY_CAP))
          ELSE /\ ui'.image = "None"
               /\ session'.image_gallery = session.image_gallery ]_vars

\* the attempts of a submission follow the declared order, each endpoint at
\* most once
InDeclaredOrder(calls) ==
    /\ \A i \in 1 .. Min(Len(calls), Len(Candidates)) : calls[i].url = Candidates[i]
    /\ \A i, j \in 1 .. Len(calls) : i < j => calls[i].url # calls[j].url

\* C9: in a submission that runs to its end, attempts follow the declared
\* order, each candidate at most once; nothing is attempted after an attempt
\* that succeeded; and a failure of the first candidate (the primary call of
\* the chain, which has a fallback behind it) does not end the submission: an
\* attempt of the next candidate follows it.
C9_FallbackChain ==
    (IsSubmit(ui) /\ ui.stop = "none") =>
        /\ InDeclaredOrder(ui.calls)
        /\ \A i \in 1 .. Len(ui.calls) :
               /\ CarriesImage(ui.calls[i].answer) => i = Len(ui.calls)
               /\ (i = 1 /\ Failed(ui.calls[i].answer)) => Len(ui.calls) > 1

\* the identity is set exactly when the session is authenticated
AuthConsistent == (session.user_email # "None") <=> session.authenticated

\* C10: the session starts unauthenticated with no identity; the identity is
\* set exactly when authenticated is true; a step that changes the auth
\* fields (login, logout) leaves count, window date and gallery alone, and a
\* generation step leaves the auth fields alone.
C10_AuthLifecycle ==
    /\ ~session.authenticated /\ session.user_email = "None"
    /\ []AuthConsistent
    /\ [][ /\ ( \/ session'.authenticated # session.authenticated
               \/ session'.user_email # session.user_email ) =>
                  /\ ui'.op \in {"login", "logout"}
                  /\ session'.daily_requests = session.daily_requests
                  /\ session'.last_request_date = session.last_request_date
                  /\ session'.image_gallery = session.image_gallery
           /\ Submitted =>
                  /\ session'.authenticated = session.authenticated
                  /\ session'.user_email = session.user_email ]_vars

====
